---- MODULE Spec2Model ----
(***************************************************************************)
(* Humanizer: HTML text-node extraction, batched JSON-mode model calls,    *)
(* and reassembly (src/app.py, the OpenAI variant; src/dump.py, the        *)
(* Anthropic variant).                                                     *)
(***************************************************************************)
EXTENDS Integers, Sequences, FiniteSets, TLC

VARIABLES
    pc,             \* position of the run inside the "if go:" handler
    vendor,         \* "openai" (src/app.py) or "anthropic" (src/dump.py)
    input,          \* the user's input: [kind, doc]
    html_with_ids,  \* the skeleton string returned by extract_text_nodes_as_mapping
    mapping,        \* the ordered dict id -> NodeInfo
    batches,        \* List[List[str]] of _call_openai_json_map
    i,              \* the batch index of "for i, batch_keys in enumerate(batches, 1)"
    out,            \* the dict "out" of _call_openai_json_map
    content,        \* the text of the last model response
    err,            \* the exception that left the gateway, or NoError
    rewritten_map,  \* what the gateway returned to the main branch
    result_html,    \* the string returned by replace_text_nodes_from_mapping
    calls,          \* the requests issued to the model so far
    hid_counter,    \* the counter of extract_text_nodes_as_mapping after its last call
    api_key,        \* whether an API key is configured
    add_words_marker,   \* the checkbox "[Words: N]" (src/dump.py: always on)
    out_format,     \* "HTML" or "Plain/Markdown"
    result          \* the output shown to the user: [out_kind, html, plain]

\* the settings read from the form
options == <<api_key, add_words_marker, out_format>>

vars == <<pc, vendor, input, html_with_ids, mapping, batches, i, out, content,
          err, rewritten_map, result_html, calls, hid_counter, options, result>>

----------------------------------------------------------------------------
(* Bounds of the model.                                                    *)

MaxIds == 3
MaxNodes == 3
MaxTokens == 4

----------------------------------------------------------------------------
(* Strings. A text is the explicit character sequence s followed by fill   *)
(* further word characters "x"; a 12000-character value is then a small    *)
(* record. Ids and tag names are TLA+ strings.                             *)

Str(s) == [s |-> s, fill |-> 0]
Filler(n) == [s |-> <<>>, fill |-> n]
EmptyText == Str(<<>>)

\* len(v)
TextLen(v) == Len(v.s) + v.fill

Whitespace == {" ", "\n", "\t"}

\* text.strip(): the text with leading and trailing whitespace removed is
\* non-empty exactly when some character is not whitespace
StripNonEmpty(v) == v.fill > 0 \/ \E n \in 1..Len(v.s) : v.s[n] \notin Whitespace

\* adjacent character data read back by the parser as one text node
TextConcat(a, b) ==
    [s |-> a.s \o [n \in 1..a.fill |-> "x"] \o b.s, fill |-> b.fill]

----------------------------------------------------------------------------
(* Python dicts: insertion-ordered sequences of [k, v] with distinct keys. *)

EmptyDict == <<>>
Keys(d) == [n \in 1..Len(d) |-> d[n].k]
KeySet(d) == {d[n].k : n \in 1..Len(d)}
DictHas(d, key) == key \in KeySet(d)
DictGet(d, key) == d[CHOOSE n \in 1..Len(d) : d[n].k = key].v
\* d[key] = val: an existing key keeps its position
DictSet(d, key, val) ==
    IF DictHas(d, key)
    THEN [n \in 1..Len(d) |-> IF d[n].k = key THEN [k |-> key, v |-> val] ELSE d[n]]
    ELSE Append(d, [k |-> key, v |-> val])

RECURSIVE DictUpdate(_, _)
\* d.update(e)
DictUpdate(d, e) ==
    IF e = <<>> THEN d
    ELSE DictUpdate(DictSet(d, e[1].k, e[1].v), Tail(e))

\* hid = f"t{hid_counter}"
hid_of(counter) == "t" \o ToString(counter)

----------------------------------------------------------------------------
(* _call_openai_json_map: the batching loop.                               *)

MAX_CHARS == 12000

\* id_to_text = {k: v.text for k, v in mapping.items()}
id_to_text_of(m) == [n \in 1..Len(m) |-> [k |-> m[n].k, v |-> m[n].v.text]]

\* id_to_parent = {k: v.parent_tag for k, v in mapping.items()}
id_to_parent_of(m) == [n \in 1..Len(m) |-> [k |-> m[n].k, v |-> m[n].v.parent_tag]]

\* add_len = len(k) + len(v) + 6
add_len_of(k, v) == Len(k) + TextLen(v) + 6

MustFlushNoAdd(acc_len, add_len, current) ==
    acc_len > MAX_CHARS /\ current # <<>>

\* if acc_len + add_len > MAX_CHARS and current:
MustFlush(acc_len, add_len, current) ==
    acc_len + add_len > MAX_CHARS /\ current # <<>>

FinalFlushDropped(bs, current) == bs

\* if current: batches.append(current)
FinalFlush(bs, current) ==
    IF current # <<>> THEN Append(bs, current) ELSE bs

RECURSIVE BatchLoop(_, _, _, _, _)
\* for k, v in id_to_text.items(): ... ; n is the position of the next item
BatchLoop(id_to_text, n, bs, current, acc_len) ==
    IF n > Len(id_to_text) THEN FinalFlush(bs, current)
    ELSE LET k == id_to_text[n].k
             v == id_to_text[n].v
             add_len == add_len_of(k, v)
         IN  IF MustFlush(acc_len, add_len, current)
             THEN BatchLoop(id_to_text, n + 1, Append(bs, current), <<k>>, add_len)
             ELSE BatchLoop(id_to_text, n + 1, bs, Append(current, k), acc_len + add_len)

BuildBatches(m) == BatchLoop(id_to_text_of(m), 1, <<>>, <<>>, 0)

\* sub_map = {k: id_to_text[k] for k in batch_keys}
SubMap(m, batch_keys) ==
    [n \in 1..Len(batch_keys) |->
        [k |-> batch_keys[n], v |-> DictGet(id_to_text_of(m), batch_keys[n])]]

\* parents_hint = {k: id_to_parent[k] for k in batch_keys}
ParentsHint(m, batch_keys) ==
    [n \in 1..Len(batch_keys) |->
        [k |-> batch_keys[n], v |-> DictGet(id_to_parent_of(m), batch_keys[n])]]

RequestWholeMap(m, batch, batch_keys) ==
    [batch |-> batch, payload |-> id_to_text_of(m), parents |-> id_to_parent_of(m)]

\* the request of batch number batch: the user messages carry parents_hint
\* (inside the prompt) and json.dumps(sub_map)
Request(m, batch, batch_keys) ==
    [batch |-> batch, payload |-> SubMap(m, batch_keys),
     parents |-> ParentsHint(m, batch_keys)]

----------------------------------------------------------------------------
(* Values shared by the specifications.                                    *)

\* an exception: its class, the batch index its message names (0 when it names
\* none) and the step that raised it
Raised(kind, batch, at) == [kind |-> kind, batch |-> batch, at |-> at]
NoError == Raised("none", 0, "")
NoDoc == <<>>
NoInput == [kind |-> "none", doc |-> NoDoc]
\* a parsed JSON value: an object with its members, or an array
NoValue == [t |-> "none", m |-> EmptyDict]
\* no output yet
NoResult == [out_kind |-> "", html |-> <<>>, plain |-> <<>>]
ObjectValue(d) == [t |-> "obj", m |-> d]
ArrayValue == [t |-> "arr", m |-> EmptyDict]

\* a JSON number as json.loads returns it; a JSON string is a text
JsonNumber(n) == [num |-> n]
IsString(v) == "s" \in DOMAIN v

\* str(v)
py_str(v) == IF IsString(v) THEN v ELSE Str(<<ToString(v.num)>>)

\* NodeInfo(text, parent_tag)
NodeInfo(text, parent_tag) == [text |-> text, parent_tag |-> parent_tag]

----------------------------------------------------------------------------
(* Documents. A parsed document (a BeautifulSoup object) is the sequence   *)
(* of its nodes in document order, each with its depth below the soup      *)
(* object (depth 1 = a child of the soup). A node's children are the nodes *)
(* that follow it with a larger depth, up to the next node that is not     *)
(* deeper. Attributes are a set of <<name, value>> pairs. The strings of a *)
(* document are its text leaves; comments and declarations are not         *)
(* modelled.                                                               *)

TagNode(name, attrs, depth) ==
    [kind |-> "tag", name |-> name, attrs |-> attrs, text |-> EmptyText, depth |-> depth]
TextNode(text, depth) ==
    [kind |-> "text", name |-> "", attrs |-> {}, text |-> text, depth |-> depth]

HasAttr(node, a) == \E p \in node.attrs : p[1] = a
\* span.get(a)
GetAttr(node, a) == (CHOOSE p \in node.attrs : p[1] = a)[2]
\* del span[a]
DelAttr(node, a) == [node EXCEPT !.attrs = {p \in node.attrs : p[1] # a}]

IsAncestor(doc, a, n) ==
    /\ a < n
    /\ doc[a].depth < doc[n].depth
    /\ \A m \in (a + 1)..n : doc[m].depth > doc[a].depth

\* the nodes of the subtree below node a (below the soup object when a = 0)
InSubtree(doc, a, n) == IF a = 0 THEN n \in 1..Len(doc) ELSE IsAncestor(doc, a, n)

\* the position after the last node of the subtree of node n
SubtreeEnd(doc, n) ==
    IF \E m \in (n + 1)..Len(doc) : doc[m].depth <= doc[n].depth
    THEN CHOOSE m \in (n + 1)..Len(doc) :
             /\ doc[m].depth <= doc[n].depth
             /\ \A q \in (n + 1)..(m - 1) : doc[q].depth > doc[n].depth
    ELSE Len(doc) + 1

\* the nodes of doc at the positions in keep, in document order
Restrict(doc, keep) ==
    [j \in 1..Cardinality(keep) |->
        doc[CHOOSE n \in keep : Cardinality({m \in keep : m < n}) = j - 1]]

\* the immediate container of node n: its name, "[document]" for the soup object
ParentName(doc, n) ==
    IF doc[n].depth = 1 THEN "[document]"
    ELSE doc[CHOOSE a \in 1..(n - 1) :
                /\ doc[a].depth = doc[n].depth - 1
                /\ \A m \in (a + 1)..n : doc[m].depth > doc[a].depth].name

----------------------------------------------------------------------------
(* HTML strings: str(soup) and BeautifulSoup(html, "lxml"). An HTML string *)
(* is the sequence of its start tags, end tags and runs of character data; *)
(* a run of character data has no boundary inside it and is never empty.   *)

OpenTok(name, attrs) == [tok |-> "open", name |-> name, attrs |-> attrs, text |-> EmptyText]
CloseTok(name) == [tok |-> "close", name |-> name, attrs |-> {}, text |-> EmptyText]
TextTok(text) == [tok |-> "text", name |-> "", attrs |-> {}, text |-> text]

\* character data written after acc
EmitText(acc, text) ==
    IF TextLen(text) = 0 THEN acc
    ELSE IF acc # <<>> /\ acc[Len(acc)].tok = "text"
         THEN [acc EXCEPT ![Len(acc)] = TextTok(TextConcat(acc[Len(acc)].text, text))]
         ELSE Append(acc, TextTok(text))

RECURSIVE SerializeFrom(_, _, _, _)
\* stack: the names of the elements still open
SerializeFrom(doc, n, stack, acc) ==
    IF n > Len(doc)
    THEN IF stack = <<>> THEN acc
         ELSE SerializeFrom(doc, n, SubSeq(stack, 1, Len(stack) - 1),
                            Append(acc, CloseTok(stack[Len(stack)])))
    ELSE IF Len(stack) >= doc[n].depth
         THEN SerializeFrom(doc, n, SubSeq(stack, 1, Len(stack) - 1),
                            Append(acc, CloseTok(stack[Len(stack)])))
         ELSE IF doc[n].kind = "tag"
              THEN SerializeFrom(doc, n + 1, Append(stack, doc[n].name),
                                 Append(acc, OpenTok(doc[n].name, doc[n].attrs)))
              ELSE SerializeFrom(doc, n + 1, stack, EmitText(acc, doc[n].text))

\* str(soup)
Serialize(doc) == SerializeFrom(doc, 1, <<>>, <<>>)

RECURSIVE ParseFrom(_, _, _, _)
ParseFrom(html, n, depth, acc) ==
    IF n > Len(html) THEN acc
    ELSE IF html[n].tok = "open"
         THEN ParseFrom(html, n + 1, depth + 1,
                        Append(acc, TagNode(html[n].name, html[n].attrs, depth + 1)))
         ELSE IF html[n].tok = "close"
              THEN ParseFrom(html, n + 1, depth - 1, acc)
              ELSE ParseFrom(html, n + 1, depth,
                             Append(acc, TextNode(html[n].text, depth + 1)))

\* BeautifulSoup(html, "lxml") of a string that str(soup) produced
Parse(html) == ParseFrom(html, 1, 0, <<>>)

----------------------------------------------------------------------------
(* extract_text_nodes_as_mapping                                           *)

BadTags == {"script", "style", "noscript"}

\* node n is one of soup(["script", "style", "noscript"]) or lies inside one
InBad(doc, n) ==
    \E a \in 1..n :
        /\ a = n \/ IsAncestor(doc, a, n)
        /\ doc[a].kind = "tag"
        /\ doc[a].name \in BadTags

RemoveBadScriptStyle(doc) ==
    Restrict(doc, {n \in 1..Len(doc) :
                      ~\E a \in 1..n : /\ a = n \/ IsAncestor(doc, a, n)
                                       /\ doc[a].name \in {"script", "style"}})

\* for bad in soup(["script", "style", "noscript"]): bad.extract()
RemoveBad(doc) == Restrict(doc, {n \in 1..Len(doc) : ~InBad(doc, n)})

IsTokenizedBlankToo(doc, t, n) ==
    /\ doc[n].kind = "text"
    /\ InSubtree(doc, t, n)
    /\ TextLen(doc[n].text) > 0

\* soup.body or soup: the first body element, else the soup object (0)
BodyOrSoup(doc) ==
    IF \E n \in 1..Len(doc) : doc[n].kind = "tag" /\ doc[n].name = "body"
    THEN CHOOSE n \in 1..Len(doc) :
             /\ doc[n].kind = "tag" /\ doc[n].name = "body"
             /\ \A m \in 1..(n - 1) : ~(doc[m].kind = "tag" /\ doc[m].name = "body")
    ELSE 0

\* if text and text.strip():
IsTokenized(doc, t, n) ==
    /\ doc[n].kind = "text"
    /\ InSubtree(doc, t, n)
    /\ TextLen(doc[n].text) > 0
    /\ StripNonEmpty(doc[n].text)

\* span = soup.new_tag("span"); span["data-hid"] = hid; span.string = text;
\* child.replace_with(span)
WrapInSpan(node, hid) ==
    << TagNode("span", {<<"data-hid", hid>>}, node.depth),
       TextNode(node.text, node.depth + 1) >>

RECURSIVE tag_text_nodes(_, _, _, _, _, _)
\* the walk of tag_text_nodes(t) over the nodes of doc from position n on;
\* skel and m are the tree and the mapping built so far
tag_text_nodes(doc, t, n, counter, skel, m) ==
    IF n > Len(doc) THEN [skel |-> skel, mapping |-> m, hid_counter |-> counter]
    ELSE IF IsTokenized(doc, t, n)
         THEN LET hid == hid_of(counter + 1)
              IN  tag_text_nodes(doc, t, n + 1, counter + 1,
                      skel \o WrapInSpan(doc[n], hid),
                      DictSet(m, hid, NodeInfo(doc[n].text, ParentName(doc, n))))
         ELSE tag_text_nodes(doc, t, n + 1, counter, Append(skel, doc[n]), m)

hid_counter_kept == hid_counter

\* hid_counter = 0: the counter is a local of the call
hid_counter_init == 0

\* returns str(soup), mapping; hid_counter is the counter when the call ends
extract_text_nodes_as_mapping(doc) ==
    LET soup == RemoveBad(doc)
        r == tag_text_nodes(soup, BodyOrSoup(soup), 1, hid_counter_init, <<>>, EmptyDict)
    IN  [html_with_ids |-> Serialize(r.skel), mapping |-> r.mapping,
         hid_counter |-> r.hid_counter]

----------------------------------------------------------------------------
(* replace_text_nodes_from_mapping                                         *)

\* span.string = new_string: the element's children are removed and one
\* string is appended
SetString(doc, n, new_string) ==
    SubSeq(doc, 1, n)
        \o <<TextNode(new_string, doc[n].depth + 1)>>
        \o SubSeq(doc, SubtreeEnd(doc, n), Len(doc))

RECURSIVE ReplaceLoop(_, _, _)
\* for span in soup.find_all(attrs={"data-hid": True}): ...; an element found
\* inside an element whose string was set is no longer part of the tree
ReplaceLoop(doc, n, replacements) ==
    IF n > Len(doc) THEN doc
    ELSE IF /\ doc[n].kind = "tag"
            /\ HasAttr(doc[n], "data-hid")
            /\ DictHas(replacements, GetAttr(doc[n], "data-hid"))
         THEN ReplaceLoop(
                  SetString(doc, n, DictGet(replacements, GetAttr(doc[n], "data-hid"))),
                  n + 1, replacements)
         ELSE ReplaceLoop(doc, n + 1, replacements)

StripMarkersOfFirst(doc) ==
    [n \in 1..Len(doc) |->
        IF /\ doc[n].kind = "tag"
           /\ \A m \in 1..(n - 1) : ~HasAttr(doc[m], "data-hid")
        THEN DelAttr(doc[n], "data-hid") ELSE doc[n]]

\* for span in soup.find_all(attrs={"data-hid": True}): del span["data-hid"]
StripMarkers(doc) ==
    [n \in 1..Len(doc) |->
        IF doc[n].kind = "tag" THEN DelAttr(doc[n], "data-hid") ELSE doc[n]]

\* replacements: a dict id -> text
replace_text_nodes_from_mapping(html, replacements) ==
    Serialize(StripMarkers(ReplaceLoop(Parse(html), 1, replacements)))

\* span.string = replacements[hid] is given a value that is not a str: the
\* element's setter raises
RaisesOnSet(html, replacements) ==
    \E n \in 1..Len(html) :
        /\ html[n].tok = "open"
        /\ HasAttr(html[n], "data-hid")
        /\ DictHas(replacements, GetAttr(html[n], "data-hid"))
        /\ ~IsString(DictGet(replacements, GetAttr(html[n], "data-hid")))

----------------------------------------------------------------------------
(* The word-count marker. A string made by joining the strings of a        *)
(* document with a whitespace separator is kept as the sequence of the     *)
(* joined strings ("\n".join(parts)); the empty string is <<>>.            *)

Punctuation == {"[", "]", ":"}
\* a character that \w matches
IsWordChar(ch) == ch \notin Whitespace \cup Punctuation

RECURSIVE WordRuns(_, _)
\* the number of maximal runs of word characters among s[1..n]
WordRuns(s, n) ==
    IF n = 0 THEN 0
    ELSE WordRuns(s, n - 1)
         + (IF IsWordChar(s[n]) /\ (n = 1 \/ ~IsWordChar(s[n - 1])) THEN 1 ELSE 0)

\* len(re.findall(r"\w+", v)) for one text
TextWords(v) ==
    WordRuns(v.s, Len(v.s))
    + (IF v.fill > 0 /\ (v.s = <<>> \/ ~IsWordChar(v.s[Len(v.s)])) THEN 1 ELSE 0)

RECURSIVE _word_count(_)
\* _word_count(s) for a joined string: the separators are whitespace, so a run
\* of word characters never spans two parts
_word_count(parts) ==
    IF parts = <<>> THEN 0 ELSE TextWords(parts[1]) + _word_count(Tail(parts))

\* soup.get_text(separator=...): every string of the document, joined
get_text(doc) ==
    LET strings == {n \in 1..Len(doc) : doc[n].kind = "text"}
    IN  [j \in 1..Cardinality(strings) |-> Restrict(doc, strings)[j].text]

RECURSIVE lstrip(_)
lstrip(v) ==
    IF v.s # <<>> /\ v.s[1] \in Whitespace THEN lstrip([v EXCEPT !.s = Tail(@)]) ELSE v

RECURSIVE rstrip(_)
rstrip(v) ==
    IF v.fill = 0 /\ v.s # <<>> /\ v.s[Len(v.s)] \in Whitespace
    THEN rstrip([v EXCEPT !.s = SubSeq(@, 1, Len(@) - 1)]) ELSE v

\* s.strip() for a joined string: parts of whitespace only at either end go
\* with their separators, the first and last remaining parts are trimmed
strip(parts) ==
    LET solid == {n \in 1..Len(parts) : StripNonEmpty(parts[n])}
        first == CHOOSE n \in solid : \A m \in solid : n <= m
        last == CHOOSE n \in solid : \A m \in solid : m <= n
    IN  IF solid = {} THEN <<>>
        ELSE [n \in 1..(last - first + 1) |->
                 LET v == parts[first + n - 1]
                     l == IF n = 1 THEN lstrip(v) ELSE v
                 IN  IF first + n - 1 = last THEN rstrip(l) ELSE l]

\* re.sub(r"\n{3,}", "\n\n", s) for a string joined with "\n": three newlines
\* in a row are two or more empty parts in a row, of which one is kept
collapse_newlines(parts) ==
    Restrict(parts, {n \in 1..Len(parts) :
                        ~(n > 1 /\ TextLen(parts[n]) = 0 /\ TextLen(parts[n - 1]) = 0)})

\* f"[Words: {n}]"; the digits of n are kept as one character
MarkerText(n) == Str(<<"[", "W", "o", "r", "d", "s", ":", " ", ToString(n), "]">>)

\* container = soup.body or soup; p.string = f"[Words: {n}]";
\* container.append(p); return str(soup). The parser raises on no string, so
\* the "except" branch is never taken.
append_words_marker_to_html(html, n) ==
    LET soup == Parse(html)
        container == BodyOrSoup(soup)
        at == IF container = 0 THEN Len(soup) + 1 ELSE SubtreeEnd(soup, container)
        depth == IF container = 0 THEN 1 ELSE soup[container].depth + 1
    IN  Serialize(SubSeq(soup, 1, at - 1)
                    \o <<TagNode("p", {}, depth), TextNode(MarkerText(n), depth + 1)>>
                    \o SubSeq(soup, at, Len(soup)))

\* f"{plain}\n[Words: {words_n}]"
append_marker_line(plain, words_n) ==
    (IF plain = <<>> THEN <<EmptyText>> ELSE plain) \o <<MarkerText(words_n)>>

\* "if add_words_marker:" on the plain path (app.py 452); src/dump.py appends
\* no marker to the plain text
PlainMarker(v, marker) == v = "openai" /\ marker

----------------------------------------------------------------------------
(* Model responses. The text of a response is the sequence of its lexemes: *)
(* "{", "}", a member "k": v with a string or a number as value, the empty *)
(* array "[]",                                                             *)
(* and prose, a stretch of text that holds no brace and is not JSON.       *)
(* Whitespace and the commas between members are not shown.                *)

LBrace == [lex |-> "{", k |-> "", v |-> EmptyText]
RBrace == [lex |-> "}", k |-> "", v |-> EmptyText]
Prose == [lex |-> "prose", k |-> "", v |-> EmptyText]
ArrayTok == [lex |-> "[]", k |-> "", v |-> EmptyText]
Member(k, v) == [lex |-> "member", k |-> k, v |-> v]

IsObjectText(c) ==
    /\ Len(c) >= 2
    /\ c[1] = LBrace
    /\ c[Len(c)] = RBrace
    /\ \A n \in 2..(Len(c) - 1) : c[n].lex = "member"

\* json.loads(c): a repeated key keeps its last value
json_loads(c) ==
    IF IsObjectText(c)
    THEN [ok |-> TRUE,
          value |-> ObjectValue(DictUpdate(EmptyDict,
                        [n \in 1..(Len(c) - 2) |-> [k |-> c[n + 1].k, v |-> c[n + 1].v]]))]
    ELSE IF c = <<ArrayTok>>
         THEN [ok |-> TRUE, value |-> ArrayValue]
         ELSE [ok |-> FALSE, value |-> NoValue]

\* re.search(r"\{.*\}", c, flags=re.DOTALL) finds a match
HasMatch(c) ==
    \E a \in 1..Len(c) : \E b \in (a + 1)..Len(c) : c[a] = LBrace /\ c[b] = RBrace

FirstOf(c, lexeme) ==
    CHOOSE a \in 1..Len(c) : c[a] = lexeme /\ \A m \in 1..(a - 1) : c[m] # lexeme
LastOf(c, lexeme) ==
    CHOOSE b \in 1..Len(c) : c[b] = lexeme /\ \A m \in (b + 1)..Len(c) : c[m] # lexeme

\* m.group(0): ".*" is greedy, the match runs from the first "{" to the last "}"
MatchGroup(c) == SubSeq(c, FirstOf(c, LBrace), LastOf(c, RBrace))

\* content = resp.choices[0].message.content or "{}"
ContentOrBraces(c) == IF c = <<>> THEN <<LBrace, RBrace>> ELSE c

\* app.py 257-265: the parsed value, or the exception raised in batch i
ParseOpenAI(c, batch) ==
    IF json_loads(c).ok THEN [err |-> NoError, parsed |-> json_loads(c).value]
    ELSE IF ~HasMatch(c)
         THEN [err |-> Raised("RuntimeError", batch, "parse"), parsed |-> NoValue]
         ELSE IF json_loads(MatchGroup(c)).ok
              THEN [err |-> NoError, parsed |-> json_loads(MatchGroup(c)).value]
              ELSE [err |-> Raised("JSONDecodeError", 0, "parse"), parsed |-> NoValue]

\* _safe_json_loads
safe_json_loads(c) ==
    IF json_loads(c).ok THEN [err |-> NoError, parsed |-> json_loads(c).value]
    ELSE IF HasMatch(c) /\ json_loads(MatchGroup(c)).ok
         THEN [err |-> NoError, parsed |-> json_loads(MatchGroup(c)).value]
         ELSE [err |-> Raised("ValueError", 0, "parse"), parsed |-> NoValue]

\* for k in batch_keys: if k not in parsed: parsed[k] = sub_map[k]
SanityFill(parsed, sub_map) ==
    DictUpdate(parsed,
        Restrict(sub_map, {n \in 1..Len(sub_map) : ~DictHas(parsed, sub_map[n].k)}))

\* out.update({k: str(parsed[k]) for k in batch_keys})
MergeBatch(o, parsed, batch_keys) ==
    DictUpdate(o, [n \in 1..Len(batch_keys) |->
                      [k |-> batch_keys[n], v |-> py_str(DictGet(parsed, batch_keys[n]))]])

InputGivenAlways(inp) == TRUE

\* input_text and input_text.strip()
InputGiven(inp) == inp.kind \notin {"empty", "blank"}

PcAfterRaiseSwallowed(v) == IF v = "openai" THEN "openai_loop" ELSE "reassemble"

\* an exception leaves the "with" block for "except Exception as e: st.error(...)"
PcAfterRaise(v) == "failed"

----------------------------------------------------------------------------
(* Specification of the batching loop alone: every mapping of at most      *)
(* MaxIds ids t1..tn whose texts have lengths around the ceiling.          *)

BatchTexts ==
    { Str(<<"H", "i", " ">>),   \* add_len 11
      Filler(5992),             \* add_len 6000: two fill a batch exactly
      Filler(5993),             \* add_len 6001: two do not fit
      Filler(11992),            \* add_len 12000: alone exactly at the ceiling
      Filler(11993) }           \* add_len 12001: oversized on its own

BatchMappings ==
    UNION { { [n \in 1..len |-> [k |-> hid_of(n), v |-> NodeInfo(f[n], "p")]]
              : f \in [1..len -> BatchTexts] } : len \in 0..MaxIds }

InitBatch ==
    /\ pc = "batcher"
    /\ vendor = "openai"
    /\ input = NoInput
    /\ html_with_ids = <<>>
    /\ mapping \in BatchMappings
    /\ batches = <<>>
    /\ i = 0
    /\ out = EmptyDict
    /\ content = <<>>
    /\ err = NoError
    /\ rewritten_map = NoValue
    /\ result_html = <<>>
    /\ calls = <<>>
    /\ hid_counter = 0
    /\ api_key = TRUE
    /\ add_words_marker = FALSE
    /\ out_format = "HTML"
    /\ result = NoResult

\* app.py 211-229, then the request that 234-246 build for each batch
RunBatcher ==
    /\ pc = "batcher"
    /\ batches' = BuildBatches(mapping)
    /\ calls' = [b \in 1..Len(batches') |-> Request(mapping, b, batches'[b])]
    /\ pc' = "batched"
    /\ UNCHANGED <<options, result, hid_counter, vendor, input, html_with_ids,
                   mapping, i, out, content, err, rewritten_map, result_html>>

NextBatch == RunBatcher

SpecBatch == InitBatch /\ [][NextBatch]_vars

----------------------------------------------------------------------------
(* Specification of tokenizing and reassembling alone: every parsed        *)
(* document of at most MaxNodes nodes below <html><body>, and the document *)
(* <p>Hello <b>world</b></p>; every replacements map over the ids.         *)

Hello == Str(<<"H", "e", "l", "l", "o", " ">>)
World == Str(<<"w", "o", "r", "l", "d">>)
Blank == Str(<<" ">>)
Hi == Str(<<"H", "i", " ">>)
Earth == Str(<<"e", "a", "r", "t", "h">>)

\* the depth of the children of <body>
BodyDepth == 3

NodeShapes ==
    { TagNode("p", {}, 0),
      TagNode("b", {<<"class", "c">>}, 0),
      TagNode("script", {}, 0),
      TextNode(Hello, 0),
      TextNode(World, 0),
      TextNode(Blank, 0) }

\* what the parser can return below <body>: depths form a tree, a string has
\* no children, sibling strings are never adjacent, and a script element
\* holds at most one string and nothing else
WellFormed(c) ==
    /\ c # <<>> => c[1].depth = BodyDepth
    /\ \A n \in 2..Len(c) :
          /\ c[n].depth >= BodyDepth
          /\ c[n].depth <= c[n - 1].depth + 1
          /\ c[n].depth = c[n - 1].depth + 1 => c[n - 1].kind = "tag"
          /\ (c[n].kind = "text" /\ c[n - 1].kind = "text") =>
                 c[n].depth # c[n - 1].depth
    /\ \A a \in 1..Len(c) : \A n \in 1..Len(c) :
          (c[a].name \in BadTags /\ IsAncestor(c, a, n)) =>
              (n = a + 1 /\ c[n].kind = "text")

Contents(shapes, len) ==
    { c \in [1..len -> { [sh EXCEPT !.depth = d] :
                           sh \in shapes, d \in BodyDepth..(BodyDepth + len - 1) }] :
        WellFormed(c) }

InBody(c) == <<TagNode("html", {}, 1), TagNode("body", {}, 2)>> \o c

\* <html><head><title>Hello </title></head>
HeadNodes ==
    << TagNode("html", {}, 1), TagNode("head", {}, 2),
       TagNode("title", {}, 3), TextNode(Hello, 4) >>

\* a document with a head: <head>...</head><body>c</body>
WithHead(c) == HeadNodes \o <<TagNode("body", {}, 2)>> \o c

\* <title>Hello </title> alone: the parser makes no body element
NoBodyDoc == HeadNodes

\* <p>Hello <b>world</b></p>
ExampleDoc ==
    InBody(<< TagNode("p", {}, 3), TextNode(Hello, 4),
              TagNode("b", {}, 4), TextNode(World, 5) >>)

Docs == { InBody(c) : c \in UNION { Contents(NodeShapes, len) : len \in 0..MaxNodes } }
            \cup { WithHead(c) :
                       c \in UNION { Contents(NodeShapes, len) : len \in 0..MaxNodes } }
            \cup {ExampleDoc, NoBodyDoc}

\* the value an editor returns for an id
EditedText(id) == IF id = "t1" THEN Hi ELSE Earth

\* every dict over the ids of m and the id "t1", each id absent, mapped to
\* its original text, or mapped to an edited text
ReplMaps(m) ==
    LET ks == IF DictHas(m, "t1") THEN Keys(m) ELSE Append(Keys(m), "t1")
        choices == { f \in [1..Len(ks) -> {"absent", "orig", "edit"}] :
                       \A n \in 1..Len(ks) : f[n] = "orig" => DictHas(m, ks[n]) }
        entry(f, n) == [k |-> ks[n],
                        v |-> IF f[n] = "orig" THEN DictGet(m, ks[n]).text
                              ELSE EditedText(ks[n])]
    IN  { Restrict([n \in 1..Len(ks) |-> entry(f, n)],
                   {n \in 1..Len(ks) : f[n] # "absent"}) : f \in choices }

InitHtml ==
    /\ pc = "html_in"
    /\ vendor = "openai"
    /\ input \in { [kind |-> "html", doc |-> d] : d \in Docs }
    /\ html_with_ids = <<>>
    /\ mapping = EmptyDict
    /\ batches = <<>>
    /\ i = 0
    /\ out = EmptyDict
    /\ content = <<>>
    /\ err = NoError
    /\ rewritten_map = NoValue
    /\ result_html = <<>>
    /\ calls = <<>>
    /\ hid_counter = 0
    /\ api_key = TRUE
    /\ add_words_marker = FALSE
    /\ out_format = "HTML"
    /\ result = NoResult

\* html_with_ids, mapping = extract_text_nodes_as_mapping(input_text); the
\* function may be called again on the same input
HtmlTokenize ==
    /\ pc \in {"html_in", "html_tokenized"}
    /\ LET r == extract_text_nodes_as_mapping(input.doc)
       IN  /\ html_with_ids' = r.html_with_ids
           /\ mapping' = r.mapping
           /\ hid_counter' = r.hid_counter
    /\ pc' = "html_tokenized"
    /\ UNCHANGED <<options, result, vendor, input, batches, i, out, content, err,
                   rewritten_map, result_html, calls>>

\* result_html = replace_text_nodes_from_mapping(html_with_ids, replacements)
HtmlReassemble ==
    /\ pc = "html_tokenized"
    /\ \E replacements \in ReplMaps(mapping) :
          /\ rewritten_map' = ObjectValue(replacements)
          /\ result_html' = replace_text_nodes_from_mapping(html_with_ids, replacements)
    /\ pc' = "html_reassembled"
    /\ UNCHANGED <<options, result, hid_counter, vendor, input, html_with_ids,
                   mapping, batches, i, out, content, err, calls>>

NextHtml == HtmlTokenize \/ HtmlReassemble

SpecHtml == InitHtml /\ [][NextHtml]_vars

----------------------------------------------------------------------------
(* Specification of replace_text_nodes_from_mapping alone, on any skeleton *)
(* string: elements that carry data-hid may be nested, may repeat an id    *)
(* and may hold anything; the replacements map is any map over the ids.    *)

SkeletonShapes ==
    { TagNode("span", {<<"data-hid", "t1">>}, 0),
      TagNode("span", {<<"data-hid", "t2">>}, 0),
      TagNode("p", {<<"class", "c">>, <<"data-hid", "t1">>}, 0),
      TagNode("b", {}, 0),
      TextNode(Hello, 0),
      TextNode(Blank, 0) }

Skeletons ==
    { Serialize(InBody(c)) :
        c \in UNION { Contents(SkeletonShapes, len) : len \in 0..MaxNodes } }

\* every dict over a subset of the ids t1, t2
AnyReplMaps ==
    { Restrict(<<[k |-> "t1", v |-> EditedText("t1")], [k |-> "t2", v |-> EditedText("t2")]>>,
               keep) : keep \in SUBSET {1, 2} }

InitSkeleton ==
    /\ pc = "skeleton_in"
    /\ vendor = "openai"
    /\ input = NoInput
    /\ html_with_ids \in Skeletons
    /\ mapping = EmptyDict
    /\ batches = <<>>
    /\ i = 0
    /\ out = EmptyDict
    /\ content = <<>>
    /\ err = NoError
    /\ rewritten_map = NoValue
    /\ result_html = <<>>
    /\ calls = <<>>
    /\ hid_counter = 0
    /\ api_key = TRUE
    /\ add_words_marker = FALSE
    /\ out_format = "HTML"
    /\ result = NoResult

\* replace_text_nodes_from_mapping(html_with_ids, replacements)
ReplaceAny ==
    /\ pc = "skeleton_in"
    /\ \E replacements \in AnyReplMaps :
          /\ rewritten_map' = ObjectValue(replacements)
          /\ result_html' = replace_text_nodes_from_mapping(html_with_ids, replacements)
    /\ pc' = "html_reassembled"
    /\ UNCHANGED <<options, result, hid_counter, vendor, input, html_with_ids,
                   mapping, batches, i, out, content, err, calls>>

NextSkeleton == ReplaceAny

SpecSkeleton == InitSkeleton /\ [][NextSkeleton]_vars

----------------------------------------------------------------------------
(* Specification of one run of the "if go:" handler on HTML input, from    *)
(* the check of the input to the reassembled document, with either         *)
(* gateway, with or without an API key, with either output format and,    *)
(* for src/app.py, with the marker on or off. The model answers each       *)
(* request with any text of at most MaxTokens lexemes, or the call fails.  *)

BigText == Filler(5993)

Secret == Str(<<"k", "e", "y">>)

RunInputs ==
    { \* nothing pasted, and whitespace only
      [kind |-> "empty", doc |-> NoDoc],
      [kind |-> "blank", doc |-> NoDoc],
      \* <p>Hello <script>key</script></p><noscript><b>key</b></noscript>
      [kind |-> "html",
       doc |-> InBody(<< TagNode("p", {}, 3), TextNode(Hello, 4),
                         TagNode("script", {}, 4), TextNode(Secret, 5),
                         TagNode("noscript", {}, 3), TagNode("b", {}, 4),
                         TextNode(Secret, 5) >>)],
      \* <p></p>
      [kind |-> "html", doc |-> InBody(<<TagNode("p", {}, 3)>>)],
      \* <p>Hello </p>
      [kind |-> "html", doc |-> InBody(<<TagNode("p", {}, 3), TextNode(Hello, 4)>>)],
      [kind |-> "html", doc |-> ExampleDoc],
      \* <p>x...x<b>x...x</b></p>: two ids that do not fit one batch
      [kind |-> "html",
       doc |-> InBody(<< TagNode("p", {}, 3), TextNode(BigText, 4),
                         TagNode("b", {}, 4), TextNode(BigText, 5) >>)] }

\* an id the run never generates
ForeignId == "t9"

Lexemes(ids) ==
    {LBrace, RBrace, Prose, ArrayTok, Member(ForeignId, Earth)}
        \cup { Member(ids[n], EditedText(ids[n])) : n \in 1..Len(ids) }
        \cup (IF ids = <<>> THEN {} ELSE {Member(ids[1], JsonNumber(5))})

Responses(ids) ==
    UNION { [1..len -> Lexemes(ids)] : len \in 0..MaxTokens }

Init ==
    /\ pc = "go"
    /\ vendor \in {"openai", "anthropic"}
    /\ input \in RunInputs
    /\ html_with_ids = <<>>
    /\ mapping = EmptyDict
    /\ batches = <<>>
    /\ i = 0
    /\ out = EmptyDict
    /\ content = <<>>
    /\ err = NoError
    /\ rewritten_map = NoValue
    /\ result_html = <<>>
    /\ calls = <<>>
    /\ hid_counter = 0
    /\ api_key \in BOOLEAN
    \* src/dump.py has no checkbox: it always appends the marker
    /\ add_words_marker \in IF vendor = "anthropic" THEN {TRUE} ELSE BOOLEAN
    /\ out_format \in {"HTML", "Plain/Markdown"}
    /\ result = NoResult

\* if not (input_text and input_text.strip()): st.error(...)
\* elif not api_key: st.error(...)
Go ==
    /\ pc = "go"
    /\ pc' = IF ~InputGiven(input) THEN "input_error"
             ELSE IF ~api_key THEN "key_error"
             ELSE "tokenize"
    /\ UNCHANGED <<options, result, hid_counter, vendor, input, html_with_ids,
                   mapping, batches, i, out, content, err, rewritten_map,
                   result_html, calls>>

\* html_with_ids, mapping = extract_text_nodes_as_mapping(input_text)
Tokenize ==
    /\ pc = "tokenize"
    /\ LET r == extract_text_nodes_as_mapping(input.doc)
       IN  /\ html_with_ids' = r.html_with_ids
           /\ mapping' = r.mapping
           /\ hid_counter' = r.hid_counter
    /\ pc' = "gateway"
    /\ UNCHANGED <<options, result, vendor, input, batches, i, out, content, err,
                   rewritten_map, result_html, calls>>

\* _call_openai_json_map up to the loop over the batches
OpenAIStart ==
    /\ pc = "gateway"
    /\ vendor = "openai"
    /\ batches' = BuildBatches(mapping)
    /\ out' = EmptyDict
    /\ i' = 1
    /\ pc' = "openai_loop"
    /\ UNCHANGED <<options, result, hid_counter, vendor, input, html_with_ids,
                   mapping, content, err, rewritten_map, result_html, calls>>

\* resp = client.chat.completions.create(**kwargs) is issued for batch i
OpenAICall ==
    /\ pc = "openai_loop"
    /\ i <= Len(batches)
    /\ calls' = Append(calls, Request(mapping, i, batches[i]))
    /\ content' = <<>>
    /\ pc' = "openai_wait"
    /\ UNCHANGED <<options, result, hid_counter, vendor, input, html_with_ids,
                   mapping, batches, i, out, err, rewritten_map, result_html>>

\* the call raises (HTTP error, authentication, rate limit, timeout)
OpenAICallFails ==
    /\ pc = "openai_wait"
    /\ err' = Raised("APIError", 0, "call")
    /\ pc' = PcAfterRaise(vendor)
    /\ UNCHANGED <<options, result, hid_counter, vendor, input, html_with_ids,
                   mapping, batches, i, out, content, rewritten_map, result_html,
                   calls>>

\* the call returns: app.py 257-271 for batch i
OpenAIResponse ==
    /\ pc = "openai_wait"
    /\ \E c \in Responses(batches[i]) :
          LET r == ParseOpenAI(ContentOrBraces(c), i)
              sub_map == SubMap(mapping, batches[i])
          IN  /\ content' = c
              /\ IF r.err # NoError
                 THEN /\ err' = r.err
                      /\ pc' = PcAfterRaise(vendor)
                      /\ UNCHANGED <<i, out>>
                 ELSE IF r.parsed.t # "obj"
                      \* "k not in parsed" or "parsed[k] = ..." raises on a list
                      THEN /\ err' = Raised("TypeError", 0, "fill")
                           /\ pc' = PcAfterRaise(vendor)
                           /\ UNCHANGED <<i, out>>
                      ELSE /\ out' = MergeBatch(out, SanityFill(r.parsed.m, sub_map),
                                                batches[i])
                           /\ i' = i + 1
                           /\ pc' = "openai_loop"
                           /\ UNCHANGED err
    /\ UNCHANGED <<options, result, hid_counter, vendor, input, html_with_ids,
                   mapping, batches, rewritten_map, result_html, calls>>

\* return out
OpenAIReturn ==
    /\ pc = "openai_loop"
    /\ i > Len(batches)
    /\ rewritten_map' = ObjectValue(out)
    /\ pc' = "reassemble"
    /\ UNCHANGED <<options, result, hid_counter, vendor, input, html_with_ids,
                   mapping, batches, i, out, content, err, result_html, calls>>

\* call_anthropic_json_map: client.messages.create(...) is issued once, with
\* the whole mapping
AnthropicCall ==
    /\ pc = "gateway"
    /\ vendor = "anthropic"
    /\ calls' = Append(calls, [batch |-> 0, payload |-> id_to_text_of(mapping),
                                parents |-> EmptyDict])
    /\ pc' = "anthropic_wait"
    /\ UNCHANGED <<options, result, hid_counter, vendor, input, html_with_ids,
                   mapping, batches, i, out, content, err, rewritten_map,
                   result_html>>

AnthropicCallFails ==
    /\ pc = "anthropic_wait"
    /\ err' = Raised("APIError", 0, "call")
    /\ pc' = PcAfterRaise(vendor)
    /\ UNCHANGED <<options, result, hid_counter, vendor, input, html_with_ids,
                   mapping, batches, i, out, content, rewritten_map, result_html,
                   calls>>

\* return _safe_json_loads(content)
AnthropicResponse ==
    /\ pc = "anthropic_wait"
    /\ \E c \in Responses(Keys(mapping)) :
          LET r == safe_json_loads(c)
          IN  /\ content' = c
              /\ IF r.err # NoError
                 THEN /\ err' = r.err
                      /\ pc' = PcAfterRaise(vendor)
                      /\ UNCHANGED rewritten_map
                 ELSE /\ rewritten_map' = r.parsed
                      /\ pc' = "reassemble"
                      /\ UNCHANGED err
    /\ UNCHANGED <<options, result, hid_counter, vendor, input, html_with_ids,
                   mapping, batches, i, out, result_html, calls>>

\* result_html = replace_text_nodes_from_mapping(html_with_ids, rewritten_map);
\* "hid in replacements" is False for every hid when replacements is []
Reassemble ==
    /\ pc = "reassemble"
    /\ IF RaisesOnSet(html_with_ids, rewritten_map.m)
       THEN /\ err' = Raised("TypeError", 0, "reassemble")
            /\ pc' = PcAfterRaise(vendor)
            /\ UNCHANGED result_html
       ELSE /\ result_html' =
                   replace_text_nodes_from_mapping(html_with_ids, rewritten_map.m)
            /\ pc' = "reassembled"
            /\ UNCHANGED err
    /\ UNCHANGED <<options, result, hid_counter, vendor, input, html_with_ids,
                   mapping, batches, i, out, content, rewritten_map, calls>>

\* if add_words_marker: visible_text = ...get_text(separator=" ").strip();
\* words_n = _word_count(visible_text);
\* result_html = append_words_marker_to_html(result_html, words_n)
Mark ==
    /\ pc = "reassembled"
    /\ result_html' =
          IF add_words_marker
          THEN append_words_marker_to_html(result_html,
                   _word_count(strip(get_text(Parse(result_html)))))
          ELSE result_html
    /\ pc' = "marked"
    /\ UNCHANGED <<options, result, hid_counter, vendor, input, html_with_ids,
                   mapping, batches, i, out, content, err, rewritten_map, calls>>

\* if out_format == "HTML": result = result_html
\* else: plain = ...get_text(separator="\n"); plain = re.sub(...).strip();
\*       if add_words_marker: plain = f"{plain}\n[Words: {words_n}]"
Format ==
    /\ pc = "marked"
    /\ result' =
          IF out_format = "HTML"
          THEN [out_kind |-> "html", html |-> result_html, plain |-> <<>>]
          ELSE LET plain == strip(collapse_newlines(get_text(Parse(result_html))))
               IN  [out_kind |-> "txt", html |-> <<>>,
                    plain |-> IF PlainMarker(vendor, add_words_marker)
                              THEN append_marker_line(plain, _word_count(plain))
                              ELSE plain]
    /\ pc' = "done"
    /\ UNCHANGED <<options, hid_counter, vendor, input, html_with_ids, mapping,
                   batches, i, out, content, err, rewritten_map, result_html,
                   calls>>

Next ==
    \/ Go
    \/ Tokenize
    \/ OpenAIStart
    \/ OpenAICall
    \/ OpenAICallFails
    \/ OpenAIResponse
    \/ OpenAIReturn
    \/ AnthropicCall
    \/ AnthropicCallFails
    \/ AnthropicResponse
    \/ Reassemble
    \/ Mark
    \/ Format

Spec == Init /\ [][Next]_vars

----------------------------------------------------------------------------
(* Claims.                                                                 *)

RECURSIVE Flatten(_)
Flatten(ss) == IF ss = <<>> THEN <<>> ELSE ss[1] \o Flatten(Tail(ss))

\* the places <<batch, position>> at which id occurs in the batches
Occurrences(bs, id) ==
    { p \in UNION { { <<b, j>> : j \in 1..Len(bs[b]) } : b \in 1..Len(bs) } :
        bs[p[1]][p[2]] = id }

\* the estimated payload of one batch: sum over its ids of len(id) + len(text) + 6
RECURSIVE Payload(_, _)
Payload(m, batch) ==
    IF batch = <<>> THEN 0
    ELSE add_len_of(batch[1], DictGet(id_to_text_of(m), batch[1]))
         + Payload(m, Tail(batch))

Oversized(m, id) == add_len_of(id, DictGet(id_to_text_of(m), id)) > MAX_CHARS

\* C1: the batches partition the mapping's ids: every id occurs in exactly one
\* place of exactly one batch, no other id occurs, and the batches concatenated
\* in batch order are the mapping's ids in the mapping's order.
C1_BatchCompleteness ==
    pc = "batched" =>
        /\ Flatten(batches) = Keys(mapping)
        /\ \A id \in KeySet(mapping) : Cardinality(Occurrences(batches, id)) = 1
        /\ \A b \in 1..Len(batches) : \A j \in 1..Len(batches[b]) :
               batches[b][j] \in KeySet(mapping)

\* C1 witness: a mapping split into several batches, one of them holding
\* more than one id.
C1_Witness ==
    /\ pc = "batched"
    /\ Len(batches) >= 2
    /\ \E b \in 1..Len(batches) : Len(batches[b]) >= 2

\* C2: every batch's estimated payload is at most MAX_CHARS unless the batch
\* is a single id that alone exceeds MAX_CHARS; an oversized id is alone in
\* its batch, is in a batch, and its payload carries its whole text.
C2_SizeBound ==
    pc = "batched" =>
        /\ \A b \in 1..Len(batches) :
              \/ Payload(mapping, batches[b]) <= MAX_CHARS
              \/ Len(batches[b]) = 1 /\ Oversized(mapping, batches[b][1])
        /\ \A b \in 1..Len(batches) : \A j \in 1..Len(batches[b]) :
              Oversized(mapping, batches[b][j]) => Len(batches[b]) = 1
        /\ \A id \in KeySet(mapping) :
              Oversized(mapping, id) =>
                  \E b \in 1..Len(batches) :
                      /\ batches[b] = <<id>>
                      /\ calls[b].payload =
                             <<[k |-> id, v |-> DictGet(id_to_text_of(mapping), id)]>>

\* C2 witness: an oversized id alone in its batch between other batches, one
\* of which is filled exactly to the ceiling.
C2_Witness ==
    /\ pc = "batched"
    /\ \E b \in 1..Len(batches) :
          Len(batches[b]) = 1 /\ Oversized(mapping, batches[b][1])
    /\ \E b \in 1..Len(batches) : Payload(mapping, batches[b]) = MAX_CHARS

\* the gateway has returned to the main branch
Returned == pc \in {"reassemble", "reassembled", "marked", "done"}

\* a response has just been handled: merged, returned, or refused
Answered ==
    \/ err.at \in {"parse", "fill"}
    \/ vendor = "openai" /\ pc = "openai_loop" /\ i >= 2
    \/ vendor = "anthropic" /\ pc = "reassemble"

\* the index and the ids of the batch that response answered
AnsweredBatch == IF err = NoError THEN i - 1 ELSE i
AnsweredIds == IF vendor = "openai" THEN batches[AnsweredBatch] ELSE Keys(mapping)

\* what the gateway holds for those ids
AnsweredMap == IF vendor = "openai" THEN out ELSE rewritten_map.m

\* what the gateway's own parsing makes of the response
AnsweredParse ==
    IF vendor = "openai" THEN ParseOpenAI(ContentOrBraces(content), AnsweredBatch)
    ELSE safe_json_loads(content)

\* C3: when the gateway returns normally, the returned map's keys are exactly
\* the mapping's ids: none missing, none added.
C3_IdCoverage ==
    Returned => KeySet(rewritten_map.m) = KeySet(mapping)

\* C4: when a response parses to an object that lacks a requested id, the
\* batch does not fail, each missing id holds its original text and each
\* present id holds the model's value.
C4_MissingKeyFallback ==
    ( /\ Answered
      /\ AnsweredParse.err = NoError
      /\ AnsweredParse.parsed.t = "obj"
      /\ \E n \in 1..Len(AnsweredIds) : ~DictHas(AnsweredParse.parsed.m, AnsweredIds[n]) )
    =>
        /\ err = NoError
        /\ \A n \in 1..Len(AnsweredIds) :
              LET id == AnsweredIds[n]
              IN  /\ DictHas(AnsweredMap, id)
                  /\ py_str(DictGet(AnsweredMap, id)) =
                        IF DictHas(AnsweredParse.parsed.m, id)
                        THEN py_str(DictGet(AnsweredParse.parsed.m, id))
                        ELSE DictGet(id_to_text_of(mapping), id)

\* the number of "{" minus the number of "}" among c[a..b]
RECURSIVE Balance(_, _, _)
Balance(c, a, b) ==
    IF a > b THEN 0
    ELSE (IF c[b] = LBrace THEN 1 ELSE IF c[b] = RBrace THEN -1 ELSE 0)
         + Balance(c, a, b - 1)

\* the first "{" has a matching "}"
HasTopLevelSpan(c) ==
    /\ \E a \in 1..Len(c) : c[a] = LBrace
    /\ \E b \in FirstOf(c, LBrace)..Len(c) : Balance(c, FirstOf(c, LBrace), b) = 0

\* the first top-level {...} span: from the first "{" to the "}" that closes it
FirstTopLevelSpan(c) ==
    LET a == FirstOf(c, LBrace)
    IN  SubSeq(c, a, CHOOSE b \in a..Len(c) :
                        /\ Balance(c, a, b) = 0
                        /\ \A m \in a..(b - 1) : Balance(c, a, m) # 0)

\* C5: when direct parsing fails and the response holds a JSON object with
\* text around it, braces in the text after it included, the gateway's result
\* is the parse of the first top-level {...} span.
C5_FirstObjectRecovery ==
    ( /\ Answered
      /\ ~json_loads(ContentOrBraces(content)).ok
      /\ HasTopLevelSpan(content)
      /\ IsObjectText(FirstTopLevelSpan(content)) )
    =>
        /\ err = NoError
        /\ LET first == json_loads(FirstTopLevelSpan(content)).value.m
           IN  IF vendor = "openai"
               THEN \A n \in 1..Len(AnsweredIds) :
                        DictGet(out, AnsweredIds[n]) =
                            py_str(DictGet(SanityFill(first, SubMap(mapping, AnsweredIds)),
                                           AnsweredIds[n]))
               ELSE rewritten_map = ObjectValue(first)

\* C6: a response that cannot be turned into a JSON object (no parse, no
\* span, a span that is not JSON, or a value that is not an object) fails
\* its batch with an error that names the batch's index.
C6_MalformedNamesBatch ==
    ( /\ Answered
      /\ \/ AnsweredParse.err # NoError
         \/ AnsweredParse.parsed.t # "obj" )
    =>
        /\ err # NoError
        /\ vendor = "openai" => err.batch = i

\* the gateway was left by an exception
GatewayFailed == err.at \in {"call", "parse", "fill"}

\* C7: a failed batch fails the run: after an exception nothing is returned
\* to the main branch, nothing is reassembled and no document is produced; a
\* document is produced only when every batch was called and merged.
C7_AllOrNothing ==
    /\ err # NoError =>
          /\ pc = "failed"
          /\ GatewayFailed => rewritten_map = NoValue
          /\ result_html = <<>>
          /\ result = NoResult
    /\ Returned =>
          /\ err = NoError
          /\ vendor = "openai" =>
                /\ i = Len(batches) + 1
                /\ Len(calls) = Len(batches)
                /\ KeySet(out) = KeySet(mapping)
                /\ rewritten_map = ObjectValue(out)
    /\ pc \notin {"reassembled", "marked", "done"} => result_html = <<>>
    /\ pc # "done" => result = NoResult

\* C7 witness: the second batch fails after the first was merged; the merged
\* part is not committed.
C7_Witness ==
    /\ pc = "failed"
    /\ vendor = "openai"
    /\ i = 2
    /\ out # EmptyDict
    /\ result_html = <<>>

\* the elements of a document with their names, attributes and nesting, in order
TagsOf(doc) == Restrict(doc, {n \in 1..Len(doc) : doc[n].kind = "tag"})

RECURSIVE VisibleTextFrom(_, _)
VisibleTextFrom(doc, n) ==
    IF n > Len(doc) THEN EmptyText
    ELSE IF doc[n].kind = "text"
         THEN TextConcat(doc[n].text, VisibleTextFrom(doc, n + 1))
         ELSE VisibleTextFrom(doc, n + 1)

\* the character data of a document, in document order
VisibleText(doc) == VisibleTextFrom(doc, 1)

RECURSIVE EditedFrom(_, _, _, _, _, _)
EditedFrom(doc, t, n, counter, replacements, acc) ==
    IF n > Len(doc) THEN acc
    ELSE IF IsTokenized(doc, t, n)
         THEN LET hid == hid_of(counter + 1)
                  text == IF DictHas(replacements, hid)
                          THEN DictGet(replacements, hid) ELSE doc[n].text
              IN  EditedFrom(doc, t, n + 1, counter + 1, replacements,
                             Append(acc, TextNode(text, doc[n].depth)))
         ELSE EditedFrom(doc, t, n + 1, counter, replacements, Append(acc, doc[n]))

\* the parsed input without its script-like elements, each tokenized string
\* replaced in place by the text given for its id
EditedDoc(doc, replacements) ==
    LET soup == RemoveBad(doc)
    IN  EditedFrom(soup, BodyOrSoup(soup), 1, 0, replacements, <<>>)

\* C8: tokenizing and reassembling yields the parsed input's elements, nesting,
\* attributes and order, with only the text at the tokenized positions
\* changed; <p>Hello <b>world</b></p> with "Hi " and "earth" gives
\* <p>Hi <b>earth</b></p>.
C8_TagPreservation ==
    pc = "html_reassembled" =>
        result_html = Serialize(EditedDoc(input.doc, rewritten_map.m))

\* C9: reassembling with the original text of every id gives the visible text
\* and the tag structure of the parsed input.
C9_RoundTripIdentity ==
    (pc = "html_reassembled" /\ rewritten_map.m = id_to_text_of(mapping)) =>
        /\ VisibleText(Parse(result_html)) = VisibleText(RemoveBad(input.doc))
        /\ TagsOf(Parse(result_html)) = TagsOf(RemoveBad(input.doc))

\* the elements of an HTML string that carry the attribute data-hid
Marked(html) == {n \in 1..Len(html) : html[n].tok = "open" /\ HasAttr(html[n], "data-hid")}

\* C10: whatever the replacements map, no element of the document returned by
\* replace_text_nodes_from_mapping carries the attribute data-hid.
C10_NoMarkerLeak ==
    pc = "html_reassembled" => Marked(result_html) = {}

\* C10 witness: a skeleton with several marked elements reassembled with a
\* partial map: one marked id replaced, another absent from the map.
C10_Witness ==
    /\ pc = "html_reassembled"
    /\ Cardinality(Marked(html_with_ids)) >= 2
    /\ \E n \in Marked(html_with_ids) :
           DictHas(rewritten_map.m, GetAttr(html_with_ids[n], "data-hid"))
    /\ \E n \in Marked(html_with_ids) :
           ~DictHas(rewritten_map.m, GetAttr(html_with_ids[n], "data-hid"))

\* the text leaves of a document whose trimmed content is non-empty
NonBlankLeaves(doc) ==
    {n \in 1..Len(doc) : doc[n].kind = "text" /\ StripNonEmpty(doc[n].text)}

\* the texts of the nodes of doc at the positions in keep, in document order
TextsAt(doc, keep) ==
    [j \in 1..Cardinality(keep) |-> Restrict(doc, keep)[j].text]

\* element n of a parsed skeleton is a placeholder
IsPlaceholder(doc, n) == doc[n].kind = "tag" /\ HasAttr(doc[n], "data-hid")

\* the strings of a parsed skeleton that sit directly in a placeholder
Wrapped(doc) ==
    {n \in 2..Len(doc) :
        /\ doc[n].kind = "text"
        /\ IsPlaceholder(doc, n - 1)
        /\ doc[n].depth = doc[n - 1].depth + 1}

\* a parsed skeleton with every placeholder resolved back to what it holds
Unwrapped(doc) ==
    LET keep == {n \in 1..Len(doc) : ~IsPlaceholder(doc, n)}
        lift(n) == Cardinality({a \in 1..n : IsPlaceholder(doc, a) /\ IsAncestor(doc, a, n)})
    IN  Restrict([n \in 1..Len(doc) |-> [doc[n] EXCEPT !.depth = @ - lift(n)]], keep)

\* the mapping holds, in order, exactly the texts of the leaves at the
\* positions in leaves of soup, the skeleton holds exactly those in
\* placeholders, and nothing else of soup is changed
CoversExactly(soup, leaves) ==
    /\ [n \in 1..Len(mapping) |-> mapping[n].v.text] = TextsAt(soup, leaves)
    /\ TextsAt(Parse(html_with_ids), Wrapped(Parse(html_with_ids))) = TextsAt(soup, leaves)
    /\ Serialize(Unwrapped(Parse(html_with_ids))) = Serialize(soup)

\* C11 as stated: after the removal of script, style and noscript, every text
\* leaf with non-empty trimmed content, wherever it sits in the tree, has
\* exactly one mapping entry holding its exact text; whitespace-only leaves
\* have none and are unchanged in the skeleton.
C11_EveryLeafCovered ==
    pc = "html_tokenized" =>
        CoversExactly(RemoveBad(input.doc), NonBlankLeaves(RemoveBad(input.doc)))

\* the leaves the walk of "soup.body or soup" visits
InWalk(doc) == {n \in 1..Len(doc) : InSubtree(doc, BodyOrSoup(doc), n)}

\* C11 amended: every text leaf with non-empty trimmed content inside the body
\* element (inside the whole document when it has no body element) has
\* exactly one mapping entry holding its exact text; every other text leaf,
\* whitespace-only or outside the body, has none and is unchanged.
C11_BodyLeafCoverage ==
    pc = "html_tokenized" =>
        LET soup == RemoveBad(input.doc)
        IN  CoversExactly(soup, NonBlankLeaves(soup) \cap InWalk(soup))

\* C11 witness: a tokenized document with a title text outside the body, a
\* tokenized leaf and a whitespace-only leaf inside it.
C11_Witness ==
    /\ pc = "html_tokenized"
    /\ LET soup == RemoveBad(input.doc)
       IN  /\ NonBlankLeaves(soup) \ InWalk(soup) # {}
           /\ NonBlankLeaves(soup) \cap InWalk(soup) # {}
           /\ \E n \in InWalk(soup) :
                  soup[n].kind = "text" /\ ~StripNonEmpty(soup[n].text)

\* the placeholders of a parsed skeleton
Placeholders(doc) == {n \in 1..Len(doc) : IsPlaceholder(doc, n)}

\* the ids the placeholders of a parsed skeleton carry, in document order
PlaceholderIds(doc) ==
    [j \in 1..Cardinality(Placeholders(doc)) |->
        GetAttr(Restrict(doc, Placeholders(doc))[j], "data-hid")]

\* C12: after every call of extract_text_nodes_as_mapping, the first or a
\* repeated one on the same input, the ids are t1..tn for the n tokenized
\* leaves, pairwise distinct, the placeholders carry them in document order,
\* the mapping iterates in that order with the j-th leaf's text under tj, and
\* the counter has counted from zero to n.
C12_IdGeneration ==
    pc = "html_tokenized" =>
        LET skel == Parse(html_with_ids)
            n == Cardinality(Wrapped(skel))
        IN  /\ Keys(mapping) = [j \in 1..n |-> hid_of(j)]
            /\ Cardinality(KeySet(mapping)) = n
            /\ PlaceholderIds(skel) = Keys(mapping)
            /\ TextsAt(skel, Wrapped(skel)) = [j \in 1..n |-> mapping[j].v.text]
            /\ hid_counter = n

\* C12 witness: a tokenized document with leaves at different depths: ids
\* given to a leaf and to a leaf nested in a later sibling element.
C12_Witness ==
    /\ pc = "html_tokenized"
    /\ Len(mapping) >= 2
    /\ mapping[1].v.parent_tag # mapping[2].v.parent_tag

\* the texts that lie inside a script, style or noscript element of the input
BadTexts(doc) == {doc[n].text : n \in {m \in 1..Len(doc) : doc[m].kind = "text" /\ InBad(doc, m)}}

\* C13: no text from inside a script, style or noscript element, at any
\* depth, is a value of the mapping or of the payload of a request, and the
\* skeleton holds neither such an element nor its text.
C13_NoScriptToModel ==
    input.kind = "html" =>
        /\ \A n \in 1..Len(mapping) : mapping[n].v.text \notin BadTexts(input.doc)
        /\ \A c \in 1..Len(calls) : \A n \in 1..Len(calls[c].payload) :
               calls[c].payload[n].v \notin BadTexts(input.doc)
        /\ \A n \in 1..Len(html_with_ids) :
               /\ html_with_ids[n].name \notin BadTags
               /\ html_with_ids[n].tok = "text" =>
                      html_with_ids[n].text \notin BadTexts(input.doc)

\* C13 witness: a request was sent for an input that has text in a script
\* element and in an element nested in a noscript element.
C13_Witness ==
    /\ input.kind = "html"
    /\ calls # <<>>
    /\ calls[1].payload # <<>>
    /\ \E n \in 1..Len(input.doc) : input.doc[n].name = "script"
    /\ \E n \in 1..Len(input.doc) :
          /\ input.doc[n].kind = "text"
          /\ InBad(input.doc, n)
          /\ input.doc[n - 1].name \notin BadTags

\* a text of the form [Words: N]
IsMarker(v) ==
    /\ v.fill = 0
    /\ Len(v.s) = Len(MarkerText(0).s)
    /\ \A n \in 1..Len(v.s) : n # 9 => v.s[n] = MarkerText(0).s[n]

\* the strings of the final output in order: the text leaves of the HTML
\* document, the lines of the plain text
OutputStrings ==
    IF result.out_kind = "html" THEN get_text(Parse(result.html)) ELSE result.plain

RECURSIVE TrailingMarkers(_)
\* how many markers in a row end the sequence
TrailingMarkers(strings) ==
    IF strings # <<>> /\ IsMarker(strings[Len(strings)])
    THEN 1 + TrailingMarkers(SubSeq(strings, 1, Len(strings) - 1))
    ELSE 0

\* C14: with the marker enabled, the final output of an HTML input, as HTML
\* and as plain text, ends with exactly one [Words: N] marker; content that
\* already ends with a marker does not get a second one.
C14_MarkerIdempotence ==
    (pc = "done" /\ add_words_marker) => TrailingMarkers(OutputStrings) = 1

\* the number of word tokens of the text leaves of the rewritten document,
\* the document replace_text_nodes_from_mapping returned
RewrittenWords ==
    _word_count(get_text(Parse(
        replace_text_nodes_from_mapping(html_with_ids, rewritten_map.m))))

\* C15: every [Words: N] marker of the final output, HTML or plain, carries
\* the number of word tokens of the visible text of the rewritten document
\* alone: no tag and no marker text is counted.
C15_MarkerCount ==
    (pc = "done" /\ add_words_marker) =>
        \A n \in 1..Len(OutputStrings) :
            IsMarker(OutputStrings[n]) => OutputStrings[n] = MarkerText(RewrittenWords)

\* extract_text_nodes_as_mapping has returned
Tokenized == pc \notin {"go", "input_error", "key_error", "tokenize"}

\* C16: no batch is empty; an HTML input without a non-whitespace text leaf
\* has an empty mapping, for which there are no batches, no request is ever
\* sent to the model and the returned map is empty.
C16_EmptyMapping ==
    /\ \A b \in 1..Len(batches) : batches[b] # <<>>
    /\ (Tokenized /\ mapping = EmptyDict) =>
          /\ batches = <<>>
          /\ calls = <<>>
          /\ Returned => rewritten_map.m = EmptyDict

\* C17: when the model call of batch i raises, the run is aborted with
\* nothing produced, and the error that leaves the gateway carries the index
\* i of the failing batch.
C17_TransportFailure ==
    err.at = "call" =>
        /\ pc = "failed"
        /\ rewritten_map = NoValue
        /\ result_html = <<>>
        /\ result = NoResult
        /\ vendor = "openai" => err.batch = i

\* C18: for an empty or whitespace-only input the handler goes from its start
\* to the input error and nowhere else: nothing is tokenized, no batch is
\* built, no request is sent, nothing is output.
C18_InputEmpty ==
    input.kind \in {"empty", "blank"} =>
        /\ pc \in {"go", "input_error"}
        /\ html_with_ids = <<>>
        /\ mapping = EmptyDict
        /\ hid_counter = 0
        /\ batches = <<>>
        /\ calls = <<>>
        /\ result = NoResult

\* C18 witness: the input error was reported for a whitespace-only input,
\* with an API key configured.
C18_Witness ==
    /\ pc = "input_error"
    /\ input.kind = "blank"
    /\ api_key

\* C19: every value of the map the gateway returns is a string, whatever
\* JSON type the model returned for the id.
C19_StringCoercion ==
    Returned => \A n \in 1..Len(rewritten_map.m) : IsString(rewritten_map.m[n].v)

\* the ids of the first n batches
IdsUpTo(n) == {Flatten(SubSeq(batches, 1, n))[j] : j \in 1..Len(Flatten(SubSeq(batches, 1, n)))}

\* the requests sent so far are those of batches 1, 2, ... in order, one
\* each, with the original texts of the batch's ids as payload; a request is
\* outstanding or failed only for batch i, when the batches before it are merged
CallsInOrder ==
    vendor = "openai" =>
        /\ Len(calls) <= Len(batches)
        /\ \A n \in 1..Len(calls) :
               /\ calls[n].batch = n
               /\ calls[n].payload = SubMap(mapping, batches[n])
        /\ pc = "openai_loop" => (Len(calls) = i - 1 /\ KeySet(out) = IdsUpTo(i - 1))
        /\ (pc = "openai_wait" \/ GatewayFailed) =>
               (Len(calls) = i /\ KeySet(out) = IdsUpTo(i - 1))
        /\ Returned => Len(calls) = Len(batches)

\* a step sends at most one request, the next one, and none after a failure
OneCallAtATime ==
    (vendor = "openai" /\ calls' # calls) =>
        /\ err = NoError
        /\ pc = "openai_loop"
        /\ Len(calls') = Len(calls) + 1
        /\ SubSeq(calls', 1, Len(calls)) = calls

\* C20: in one run of _call_openai_json_map the model is called once per
\* batch in batch order, the call of batch i + 1 only after batch i was
\* parsed and merged, never twice for a batch and never after a failed
\* batch, each time with only the original texts of that batch's ids.
C20_CallOrdering == [](CallsInOrder) /\ [][OneCallAtATime]_vars

\* C20 witness: two batches were called, the second after the first was
\* merged, and the gateway has returned.
C20_Witness ==
    /\ vendor = "openai"
    /\ Len(batches) = 2
    /\ Len(calls) = 2
    /\ pc = "reassemble"
    /\ DictGet(out, "t1") = EditedText("t1")

====
